---- MODULE Spec2Model ----
(***************************************************************************)
(* Streaming PGN record assembler, feature extractor and batch             *)
(* accumulator of pgn_parser_movelevel_features.py.                        *)
(*                                                                         *)
(* Text is modelled at character level: a Python str is a sequence of      *)
(* one-character strings, so that strip(), split(), slicing, join() and    *)
(* sorted() are computed the way the interpreter computes them.            *)
(***************************************************************************)
EXTENDS Integers, Sequences, FiniteSets, TLC

(***************************************************************************)
(* Bounds of the model.                                                    *)
(***************************************************************************)
\* longest stream (lines read after the leading skip) the loop is run on
MaxLines == 5
\* largest batch_size argument tried (batch_size ranges over 1..MaxBatchSize)
MaxBatchSize == 2
\* lines of the leading skip still to be read when the model starts
MaxSkipLeft == 1
\* most header lines of a record handed to parse_pgn on its own
MaxHeaders == 2
\* largest max_ply argument handed to parse_pgn on its own
MaxPlyArg == 3

\* line 114: the number of leading lines of the stream that are discarded
SkipLimit == 50000000

(***************************************************************************)
(* Python str primitives.                                                  *)
(***************************************************************************)
\* printable ASCII in code point order, code points 32..126 (the backtick,
\* which the lexer does not take in a string, is spelled out; no line holds it)
Ascii == <<" ", "!", "\"", "#", "$", "%", "&", "'", "(", ")", "*", "+",
       ",", "-", ".", "/", "0", "1", "2", "3", "4", "5", "6", "7",
       "8", "9", ":", ";", "<", "=", ">", "?", "@", "A", "B", "C",
       "D", "E", "F", "G", "H", "I", "J", "K", "L", "M", "N", "O",
       "P", "Q", "R", "S", "T", "U", "V", "W", "X", "Y", "Z", "[",
       "\\", "]", "^", "_", "backtick", "a", "b", "c", "d", "e", "f", "g",
       "h", "i", "j", "k", "l", "m", "n", "o", "p", "q", "r", "s",
       "t", "u", "v", "w", "x", "y", "z", "{", "|", "}", "~">>

\* ord(c): the code point str comparison (and so sorted()) goes by
Ord(c) ==
    IF c = "\n" THEN 10
    ELSE IF c = "\t" THEN 9
    ELSE 31 + (CHOOSE i \in 1..Len(Ascii) : Ascii[i] = c)

\* str.isspace() of one character
IsSpace(c) == c \in {" ", "\n", "\t"}

\* str.isdigit() of one character
IsDigit(c) == c \in {"0", "1", "2", "3", "4", "5", "6", "7", "8", "9"}

RECURSIVE LStrip(_)
LStrip(s) ==
    IF s # <<>> /\ IsSpace(Head(s)) THEN LStrip(Tail(s)) ELSE s

RECURSIVE RStrip(_)
RStrip(s) ==
    IF s # <<>> /\ IsSpace(s[Len(s)]) THEN RStrip(SubSeq(s, 1, Len(s) - 1)) ELSE s

\* variant: line.lstrip() in place of line.strip()
Strip_LeftOnly(s) == LStrip(s)

\* line.strip()
Strip(s) == RStrip(LStrip(s))

\* s[1:-1]
Slice1m1(s) == IF Len(s) <= 2 THEN <<>> ELSE SubSeq(s, 2, Len(s) - 1)

\* s.split(): the maximal runs of non-whitespace characters, in order
RECURSIVE SplitFrom(_, _, _)
SplitFrom(s, cur, acc) ==
    IF s = <<>> THEN (IF cur = <<>> THEN acc ELSE Append(acc, cur))
    ELSE IF IsSpace(Head(s))
         THEN SplitFrom(Tail(s), <<>>, IF cur = <<>> THEN acc ELSE Append(acc, cur))
         ELSE SplitFrom(Tail(s), Append(cur, Head(s)), acc)

Split(s) == SplitFrom(s, <<>>, <<>>)

\* " ".join(tokens)
RECURSIVE Join(_)
Join(tokens) ==
    IF tokens = <<>> THEN <<>>
    ELSE IF Len(tokens) = 1 THEN tokens[1]
    ELSE tokens[1] \o <<" ">> \o Join(Tail(tokens))

\* str(n) of a natural number, as in an f-string
RECURSIVE DecStr(_)
DecStr(n) ==
    IF n < 10 THEN <<Ascii[17 + n]>>
    ELSE DecStr(n \div 10) \o <<Ascii[17 + (n % 10)]>>

\* a < b for two str values: lexicographic by code point
RECURSIVE StrLess(_, _)
StrLess(a, b) ==
    IF b = <<>> THEN FALSE
    ELSE IF a = <<>> THEN TRUE
    ELSE IF Head(a) = Head(b) THEN StrLess(Tail(a), Tail(b))
    ELSE Ord(Head(a)) < Ord(Head(b))

(***************************************************************************)
(* Python values held in a feature dictionary.  Every value carries its    *)
(* type and its text, so values of different types can be compared.        *)
(***************************************************************************)
PyStr(s) == [kind |-> "str", text |-> s]
PyInt(n) == [kind |-> "int", text |-> DecStr(n)]
PyNone == [kind |-> "None", text |-> <<>>]

\* a dict is a function from its keys; d[k] = v
EmptyDict == [k \in {} |-> PyNone]
Put(d, k, v) == [x \in (DOMAIN d) \cup {k} |-> IF x = k THEN v ELSE d[x]]

\* names the code spells out
S_Ply == <<"P", "l", "y">>
S_white == <<"w", "h", "i", "t", "e">>
S_black == <<"b", "l", "a", "c", "k">>
S_move == <<"_", "m", "o", "v", "e">>
S_timespent == <<"_", "t", "i", "m", "e", "s", "p", "e", "n", "t">>
S_evalaftermove == <<"_", "e", "v", "a", "l", "a", "f", "t", "e", "r", "m", "o", "v", "e">>
S_eval_is_mate == <<"_", "e", "v", "a", "l", "_", "i", "s", "_", "m", "a", "t", "e">>

(***************************************************************************)
(* The chess rules engine (chess.pgn.read_game and the game nodes), which  *)
(* is a library outside the repository.  Its answer is a function of the   *)
(* movetext line; the model reads the movetext over a token alphabet that  *)
(* stands for what the engine can answer per half-move:                    *)
(*   m  a move without annotation         c  a move with a clock reading   *)
(*   e  a move with a centipawn eval      #  a move with a mate eval       *)
(*   ?  text the engine raises on                                          *)
(* Every other character (move numbers, dots, blanks) carries no move.     *)
(***************************************************************************)
PyFloat(s) == [kind |-> "float", text |-> s]

EngineNode(c) ==
    [uci   |-> PyStr(<<c>>),
     clock |-> IF c = "c" THEN PyFloat(<<"6", "0", ".", "0">>) ELSE PyNone,
     eval  |-> IF c = "e" THEN "cp" ELSE IF c = "#" THEN "mate" ELSE "None",
     score |-> IF c = "e" THEN PyInt(15) ELSE PyNone]

RECURSIVE EngineNodes(_)
EngineNodes(text) ==
    IF text = <<>> THEN <<>>
    ELSE IF Head(text) \in {"m", "c", "e", "#"}
         THEN <<EngineNode(Head(text))>> \o EngineNodes(Tail(text))
         ELSE EngineNodes(Tail(text))

\* chess.pgn.read_game(io.StringIO(movetext)): the mainline, or an exception
read_game(movetext) ==
    IF \E i \in 1..Len(movetext) : movetext[i] = "?"
    THEN [ok |-> FALSE, nodes |-> <<>>]
    ELSE [ok |-> TRUE, nodes |-> EngineNodes(movetext)]

(***************************************************************************)
(* parse_pgn(lines, max_ply)                                               *)
(***************************************************************************)
Min(a, b) == IF a < b THEN a ELSE b

\* math.ceil(ply/2)
CeilHalf(ply) == (ply + 1) \div 2

\* f'{player}_move{movenum}'
feature_name(ply) ==
    (IF ply % 2 = 1 THEN S_white ELSE S_black) \o S_move \o DecStr(CeilHalf(ply))

\* lines 24-28: one header line folded into the dictionary, or IndexError
\* when line[1:-1].split() is empty and feature[0] does not exist
RECURSIVE HeaderPass(_, _, _)
HeaderPass(lines, i, features) ==
    IF i > Len(lines) - 1 THEN [ok |-> TRUE, features |-> features]
    ELSE LET feature == Split(Slice1m1(lines[i]))
         IN  IF feature = <<>> THEN [ok |-> FALSE, features |-> features]
             ELSE LET key == feature[1]
                      value == Slice1m1(Join(Tail(feature)))
                  IN  HeaderPass(lines, i + 1, Put(features, key, PyStr(value)))

\* lines 37-48: the body of the per-ply loop for one ply
PlyFeatures(features, ply, nextpos) ==
    LET name == feature_name(ply)
        f1 == Put(features, name \o S_move, nextpos.uci)
        f2 == Put(f1, name \o S_timespent, nextpos.clock)
        f3 == IF nextpos.eval # "None"
              THEN Put(f2, name \o S_evalaftermove, nextpos.score)
              ELSE f2
        f4 == IF nextpos.eval = "mate"
              THEN Put(f3, name \o S_eval_is_mate, PyInt(1))
              ELSE f3
    IN  f4

\* line 36: for ply in range(1, min(max_ply+1, game.end().ply()))
RECURSIVE PlyPass(_, _, _, _)
PlyPass(features, ply, stop, nodes) ==
    IF ply >= stop THEN features
    ELSE PlyPass(PlyFeatures(features, ply, nodes[ply]), ply + 1, stop, nodes)

\* variant: the final ply included, range(1, min(max_ply, total_ply) + 1)
PlyStop_Inclusive(max_ply, total_ply) == Min(max_ply, total_ply) + 1

PlyStop(max_ply, total_ply) == Min(max_ply + 1, total_ply)

\* the value returned, or the exception that leaves the function
parse_pgn(lines, max_ply) ==
    LET heading == HeaderPass(lines, 1, EmptyDict)
        game == read_game(lines[Len(lines)])
    IN  IF ~heading.ok THEN [ok |-> FALSE, error |-> "IndexError", features |-> EmptyDict]
        ELSE IF ~game.ok THEN [ok |-> FALSE, error |-> "engine", features |-> EmptyDict]
        ELSE LET total_ply == Len(game.nodes)
                 withPly == Put(heading.features, S_Ply, PyInt(total_ply))
             IN  [ok |-> TRUE, error |-> "None",
                  features |-> PlyPass(withPly, 1, PlyStop(max_ply, total_ply), game.nodes)]

(***************************************************************************)
(* export(game_batch, export_path, export_name, batchnum, final_size)      *)
(***************************************************************************)
\* variant: the columns taken from the first row alone
Columns_FirstRow(game_batch) == IF game_batch = <<>> THEN {} ELSE DOMAIN game_batch[1]

\* pd.DataFrame(game_batch).columns: every key of every row
Columns(game_batch) == UNION {DOMAIN game_batch[i] : i \in 1..Len(game_batch)}

\* game_df.shape[0]
NumRows(game_batch) == Len(game_batch)

\* the file to_csv writes: named by the batch number, one row per game
CsvFile(game_batch, batchnum) == [batchnum |-> batchnum, rows |-> game_batch]

\* sorted(list(schema_columns))
RECURSIVE Sorted(_)
Sorted(S) ==
    IF S = {} THEN <<>>
    ELSE LET least == CHOOSE x \in S : \A y \in S \ {x} : StrLess(x, y)
         IN  <<least>> \o Sorted(S \ {least})

\* lines 148-151: attribute + '\n' for every attribute, in list order
SchemaText(columns) == [i \in 1..Len(columns) |-> columns[i] \o <<"\n">>]

(***************************************************************************)
(* The lines the stream is made of.                                        *)
(***************************************************************************)
L_blank == <<" ", "\n">>
L_tagA == <<"[", "A", " ", "\"", "x", "\"", "]", "\n">>
L_tagEmpty == <<"[", "]", "\n">>
L_gameLong == <<" ", "1", ".", " ", "c", " ", "e", " ", "2", ".", " ", "#", "\n">>
L_gameShort == <<"1", ".", " ", "m">>
L_gameBad == <<"1", ".", " ", "?", "\n">>

StreamLines == {L_blank, L_tagA, L_tagEmpty, L_gameLong, L_gameShort, L_gameBad}

\* max_ply arguments the loop is run with
StreamPlyCaps == {2}

(***************************************************************************)
(* State.                                                                  *)
(***************************************************************************)
VARIABLES
    pc,              \* "loop" (lines 113-136), "schema" (146-151), "done", "aborted"
    error,           \* the exception that ended the run, "None" while there is none
    batch_size,      \* argument
    max_ply,         \* argument
    print_progress,  \* argument
    line_num,        \* line 111
    currgame,        \* line 100
    game_batch,      \* line 99
    batchnum,        \* line 101
    schema_columns,  \* line 102 (the set; line 146 rebinds the name to its sorted list)
    csv_files,       \* the to_csv calls that completed, in order
    schema_files,    \* the contents written to the schema file, one per completed write
    console,         \* the progress messages printed, as (batches, total rows)
    stream,          \* history: the lines read after the leading skip
    dispatched,      \* history: the records handed to parse_pgn
    outputs,         \* history: the dictionaries parse_pgn returned
    call             \* parse_pgn called on its own: arguments and result

vars == <<pc, error, batch_size, max_ply, print_progress, line_num, currgame,
          game_batch, batchnum, schema_columns, csv_files, schema_files, console,
          stream, dispatched, outputs, call>>

args == <<batch_size, max_ply, print_progress>>
NoCall == [state |-> "none"]

Init ==
    /\ pc = "loop"
    /\ error = "None"
    /\ batch_size \in 1..MaxBatchSize
    /\ max_ply \in StreamPlyCaps
    /\ print_progress \in BOOLEAN
    /\ line_num \in (SkipLimit - MaxSkipLeft)..SkipLimit
    /\ currgame = <<>>
    /\ game_batch = <<>>
    /\ batchnum = 1
    /\ schema_columns = {}
    /\ csv_files = <<>>
    /\ schema_files = <<>>
    /\ console = <<>>
    /\ stream = <<>>
    /\ dispatched = <<>>
    /\ outputs = <<>>
    /\ call = NoCall

(***************************************************************************)
(* The loop over sys.stdin, lines 113-136.                                 *)
(***************************************************************************)
\* lines 114-116: a line of the leading skip
SkipLeadingLine ==
    /\ pc = "loop"
    /\ line_num < SkipLimit
    /\ \E line \in StreamLines : line_num' = line_num + 1
    /\ UNCHANGED <<pc, error, args, currgame, game_batch, batchnum, schema_columns,
                   csv_files, schema_files, console, stream, dispatched, outputs, call>>

CanRead ==
    /\ pc = "loop"
    /\ line_num >= SkipLimit
    /\ Len(stream) < MaxLines

\* lines 117-118
BlankLine ==
    /\ CanRead
    /\ \E line \in StreamLines :
        /\ Strip(line) = <<>>
        /\ stream' = Append(stream, line)
    /\ UNCHANGED <<pc, error, args, line_num, currgame, game_batch, batchnum,
                   schema_columns, csv_files, schema_files, console, dispatched,
                   outputs, call>>

\* lines 134-136
MiddleOfGame ==
    /\ CanRead
    /\ \E line \in StreamLines :
        LET stripped == Strip(line)
        IN  /\ stripped # <<>>
            /\ ~IsDigit(stripped[1])
            /\ currgame' = Append(currgame, stripped)
            /\ stream' = Append(stream, line)
    /\ UNCHANGED <<pc, error, args, line_num, game_batch, batchnum, schema_columns,
                   csv_files, schema_files, console, dispatched, outputs, call>>

\* variant: len(game_batch) > batch_size
BatchFull_OffByOne(batch, size) == Len(batch) > size

\* variant: the batch not cleared after the export
ClearedBatch_Kept(batch) == batch

\* variant: the batch number not incremented
NextBatchnum_Same(num) == num

\* line 127: the end-of-batch condition
BatchFull(batch, size) == Len(batch) = size

\* line 129: the batch after an export
ClearedBatch(batch) == <<>>

\* line 132
NextBatchnum(num) == num + 1

\* the progress message of lines 130-131
BatchMessage(num, size) == [batches |-> num, rows |-> num * size]

\* variant: a record parse_pgn raises on is skipped and the loop goes on
EndOfGameStep_SkipBadRecord(stripped) ==
    LET record == Append(currgame, stripped)
        parsed == parse_pgn(record, max_ply)
        batch  == Append(game_batch, parsed.features)
    IN  /\ dispatched' = Append(dispatched, record)
        /\ currgame' = <<>>
        /\ IF ~parsed.ok
           THEN UNCHANGED <<pc, error, game_batch, batchnum, schema_columns, csv_files,
                            console, outputs>>
           ELSE /\ outputs' = Append(outputs, parsed.features)
                /\ IF Len(batch) = batch_size
                   THEN /\ csv_files' = Append(csv_files, CsvFile(batch, batchnum))
                        /\ schema_columns' = schema_columns \cup Columns(batch)
                        /\ game_batch' = <<>>
                        /\ console' = IF print_progress
                                      THEN Append(console, [batches |-> batchnum,
                                                            rows |-> batchnum * batch_size])
                                      ELSE console
                        /\ batchnum' = batchnum + 1
                        /\ UNCHANGED <<pc, error>>
                   ELSE /\ game_batch' = batch
                        /\ UNCHANGED <<pc, error, batchnum, schema_columns, csv_files,
                                       console>>

\* lines 121-132, after the line is read: the record goes to parse_pgn; its
\* result joins the batch; a full batch is exported.  parse_pgn or to_csv
\* raising leaves the function with the state as it is at the raise.
EndOfGameStep(stripped) ==
    LET record == Append(currgame, stripped)
        parsed == parse_pgn(record, max_ply)
        batch  == Append(game_batch, parsed.features)
    IN  /\ dispatched' = Append(dispatched, record)
        /\ IF ~parsed.ok
           THEN /\ pc' = "aborted"
                /\ error' = parsed.error
                /\ currgame' = record
                /\ UNCHANGED <<game_batch, batchnum, schema_columns, csv_files,
                               console, outputs>>
           ELSE /\ outputs' = Append(outputs, parsed.features)
                /\ currgame' = <<>>
                /\ IF BatchFull(batch, batch_size)
                   THEN \E written \in BOOLEAN :
                        IF written
                        THEN /\ csv_files' = Append(csv_files, CsvFile(batch, batchnum))
                             /\ schema_columns' = schema_columns \cup Columns(batch)
                             /\ game_batch' = ClearedBatch(batch)
                             /\ console' = IF print_progress
                                           THEN Append(console, BatchMessage(batchnum, batch_size))
                                           ELSE console
                             /\ batchnum' = NextBatchnum(batchnum)
                             /\ UNCHANGED <<pc, error>>
                        ELSE /\ pc' = "aborted"
                             /\ error' = "OSError"
                             /\ game_batch' = batch
                             /\ UNCHANGED <<batchnum, schema_columns, csv_files, console>>
                   ELSE /\ game_batch' = batch
                        /\ UNCHANGED <<pc, error, batchnum, schema_columns, csv_files,
                                       console>>

\* lines 121-132
EndOfGame ==
    /\ CanRead
    /\ \E line \in StreamLines :
        LET stripped == Strip(line)
        IN  /\ stripped # <<>>
            /\ IsDigit(stripped[1])
            /\ stream' = Append(stream, line)
            /\ EndOfGameStep(stripped)
    /\ UNCHANGED <<args, line_num, schema_files, call>>

(***************************************************************************)
(* After the loop, lines 138-151.                                          *)
(***************************************************************************)
\* variant: the final batch counted on top of batchnum full batches
FinalMessage_AllFull(num, size, final_size) ==
    [batches |-> num, rows |-> num * size + final_size]

\* the message of lines 141-142
FinalMessage(num, size, final_size) ==
    [batches |-> num, rows |-> (num - 1) * size + final_size]

\* variant: lines still in the buffer at the end of the stream are taken for
\* a last record and its row joins the final batch
FinalExport_FlushBuffer ==
    /\ pc = "loop"
    /\ LET last == IF currgame = <<>> THEN game_batch
                   ELSE Append(game_batch, parse_pgn(currgame, max_ply).features)
       IN  /\ csv_files' = Append(csv_files, CsvFile(last, batchnum))
           /\ schema_columns' = schema_columns \cup Columns(last)
           /\ console' = console
           /\ pc' = "schema"
    /\ UNCHANGED <<error, args, line_num, currgame, game_batch, batchnum, schema_files,
                   stream, dispatched, outputs, call>>

\* lines 139-142: the stream has ended; the last batch is exported as it is
FinalExport ==
    /\ pc = "loop"
    /\ \E written \in BOOLEAN :
        IF written
        THEN /\ csv_files' = Append(csv_files, CsvFile(game_batch, batchnum))
             /\ schema_columns' = schema_columns \cup Columns(game_batch)
             /\ console' = IF print_progress
                           THEN Append(console,
                                       FinalMessage(batchnum, batch_size, NumRows(game_batch)))
                           ELSE console
             /\ pc' = "schema"
             /\ UNCHANGED error
        ELSE /\ pc' = "aborted"
             /\ error' = "OSError"
             /\ UNCHANGED <<csv_files, schema_columns, console>>
    /\ UNCHANGED <<args, line_num, currgame, game_batch, batchnum, schema_files,
                   stream, dispatched, outputs, call>>

\* lines 146-151
WriteSchema ==
    /\ pc = "schema"
    /\ \E written \in BOOLEAN :
        IF written
        THEN /\ schema_files' = Append(schema_files, SchemaText(Sorted(schema_columns)))
             /\ pc' = "done"
             /\ UNCHANGED error
        ELSE /\ pc' = "aborted"
             /\ error' = "OSError"
             /\ UNCHANGED schema_files
    /\ UNCHANGED <<args, line_num, currgame, game_batch, batchnum, schema_columns,
                   csv_files, console, stream, dispatched, outputs, call>>

Next ==
    \/ SkipLeadingLine
    \/ BlankLine
    \/ MiddleOfGame
    \/ EndOfGame
    \/ FinalExport
    \/ WriteSchema

Spec == Init /\ [][Next]_vars

(***************************************************************************)
(* parse_pgn called on its own, on records built from header tags          *)
(* (key, value) and a movetext of a known number of half-moves.            *)
(***************************************************************************)
\* line 79: the default of max_ply
DefaultMaxPly == 20

TagKeys == {<<"A">>, <<"B">>, S_Ply}
TagValues == {<<"x">>, <<"y", " ", " ", "z">>}

\* the header line [Key "Value"]
TagLine(key, value) == <<"[">> \o key \o <<" ", "\"">> \o value \o <<"\"", "]">>

HeaderInputs ==
    {[wellformed |-> TRUE, key |-> k, value |-> v, line |-> TagLine(k, v)] :
        k \in TagKeys, v \in TagValues}
    \cup {[wellformed |-> FALSE, key |-> <<>>, value |-> <<>>, line |-> <<"[", "]">>]}

MovetextInputs ==
    {[legal |-> TRUE,  plies |-> 0, line |-> <<"0", "-", "1">>],
     [legal |-> TRUE,  plies |-> 1, line |-> <<"1", ".", " ", "m">>],
     [legal |-> TRUE,  plies |-> 3, line |-> <<"1", ".", " ", "c", " ", "e", " ", "2", ".", " ", "#">>],
     [legal |-> TRUE,  plies |-> 5, line |-> <<"1", ".", " ", "m", " ", "c", " ", "2", ".", " ", "e", " ", "#", " ", "3", ".", " ", "m">>],
     [legal |-> FALSE, plies |-> 0, line |-> <<"1", ".", " ", "m", " ", "?">>]}

HeaderSeqs == UNION {[1..n -> HeaderInputs] : n \in 0..MaxHeaders}

PlyArgs == (0..MaxPlyArg) \cup {DefaultMaxPly}

Pending == [ok |-> FALSE, error |-> "pending", features |-> EmptyDict]

\* the list of lines handed to parse_pgn: the header lines, then the movetext
RecordLines(headers, movetext) ==
    [i \in 1..Len(headers) |-> headers[i].line] \o <<movetext.line>>

InitExtract ==
    /\ pc = "done"
    /\ error = "None"
    /\ batch_size = 1
    /\ max_ply = 0
    /\ print_progress = FALSE
    /\ line_num = 0
    /\ currgame = <<>>
    /\ game_batch = <<>>
    /\ batchnum = 1
    /\ schema_columns = {}
    /\ csv_files = <<>>
    /\ schema_files = <<>>
    /\ console = <<>>
    /\ stream = <<>>
    /\ dispatched = <<>>
    /\ outputs = <<>>
    /\ \E headers \in HeaderSeqs, movetext \in MovetextInputs, cap \in PlyArgs :
        call = [state |-> "ready", headers |-> headers, movetext |-> movetext,
                max_ply |-> cap, result |-> Pending]

CallParsePgn ==
    /\ call.state = "ready"
    /\ call' = [call EXCEPT !.state = "returned",
                            !.result = parse_pgn(RecordLines(call.headers, call.movetext),
                                                 call.max_ply)]
    /\ UNCHANGED <<pc, error, args, line_num, currgame, game_batch, batchnum,
                   schema_columns, csv_files, schema_files, console, stream,
                   dispatched, outputs>>

NextExtract == CallParsePgn

SpecExtract == InitExtract /\ [][NextExtract]_vars

(***************************************************************************)
(* Properties of parse_pgn.                                                *)
(***************************************************************************)
IsPrefix(p, s) == Len(p) <= Len(s) /\ SubSeq(s, 1, Len(p)) = p

\* the key prefix the documentation gives ply i, up to the field separator
PlyKeyPrefix(i) ==
    (IF i % 2 = 1 THEN S_white ELSE S_black)
        \o S_move \o DecStr((i + 1) \div 2) \o <<"_">>

HasPlyKeys(features, i) == \E k \in DOMAIN features : IsPrefix(PlyKeyPrefix(i), k)

\* plies looked for in a result: beyond every cap and every game of the inputs
ProbePlies == 1..(DefaultMaxPly + 2)

Returned == call.state = "returned" /\ call.result.ok

\* C4: a game of P plies under the cap M has per-ply keys for exactly the
\* plies 1..min(M, P-1): none with M = 0, and never for the final ply P.
C4_PerPlyKeys ==
    Returned =>
        LET M == call.max_ply
            P == call.movetext.plies
        IN  \A i \in ProbePlies :
                HasPlyKeys(call.result.features, i) <=> (i <= Min(M, P - 1))

\* a game of 3 plies under a cap of at least 3: plies 1 and 2 have keys, 3 has none
C4_Witness ==
    /\ Returned
    /\ call.movetext.plies = 3
    /\ call.max_ply >= 3
    /\ HasPlyKeys(call.result.features, 2)
    /\ ~HasPlyKeys(call.result.features, 3)

WellFormed(c) ==
    /\ c.movetext.legal
    /\ \A i \in 1..Len(c.headers) : c.headers[i].wellformed

HeaderKeys(c) == {c.headers[i].key : i \in 1..Len(c.headers)}

\* the value of the last header line of the record that carries key k
LastValue(c, k) ==
    LET last == CHOOSE i \in 1..Len(c.headers) :
                    /\ c.headers[i].key = k
                    /\ \A j \in (i + 1)..Len(c.headers) : c.headers[j].key # k
    IN  c.headers[last].value

IsPlyKey(k) == \E i \in ProbePlies : IsPrefix(PlyKeyPrefix(i), k)

\* C5: for a valid record the result holds, besides the per-ply fields,
\* exactly the header keys and Ply; each header key maps to the value of its
\* last occurrence, Ply to the number of half-moves; a record of a lone
\* movetext line yields a mapping and no failure.
C5_HeaderKeysAndPly ==
    (call.state = "returned" /\ WellFormed(call)) =>
        /\ call.result.ok
        /\ {k \in DOMAIN call.result.features : ~IsPlyKey(k)} = HeaderKeys(call) \cup {S_Ply}
        /\ call.result.features[S_Ply] = PyInt(call.movetext.plies)
        /\ \A k \in HeaderKeys(call) :
               call.result.features[k] = PyStr(LastValue(call, k))

(***************************************************************************)
(* Properties of the run.                                                  *)
(***************************************************************************)
\* the rows of the files written, in the order of the writes
RECURSIVE AllRows(_)
AllRows(files) ==
    IF files = <<>> THEN <<>>
    ELSE AllRows(SubSeq(files, 1, Len(files) - 1)) \o files[Len(files)].rows

\* the stream has ended and the final export has completed
FinalExported == pc \in {"schema", "done"}

\* C1: N accepted records under capacity C give floor(N/C) full files, each
\* written when its C-th record is accepted, and at stream end one more file
\* of N mod C rows, written even when it is empty.
C1_BatchCount ==
    LET N == Len(outputs)
        C == batch_size
        full == N \div C
    IN  /\ pc = "loop" =>
            /\ Len(csv_files) = full
            /\ \A k \in 1..full : Len(csv_files[k].rows) = C
        /\ FinalExported =>
            /\ Len(csv_files) = full + 1
            /\ \A k \in 1..full : Len(csv_files[k].rows) = C
            /\ Len(csv_files[full + 1].rows) = N % C

\* capacity 2 and 5 records: files of 2, 2 and 1 rows
C1_Witness ==
    /\ pc = "done"
    /\ batch_size = 2
    /\ Len(outputs) = 5
    /\ Len(csv_files) = 3
    /\ Len(csv_files[1].rows) = 2
    /\ Len(csv_files[2].rows) = 2
    /\ Len(csv_files[3].rows) = 1

\* a before b in lexicographic order of code points
LexBefore(a, b) ==
    \E i \in 1..Len(b) :
        /\ i <= Len(a) + 1
        /\ \A j \in 1..(i - 1) : a[j] = b[j]
        /\ (i = Len(a) + 1 \/ Ord(a[i]) < Ord(b[i]))

\* the name a line of the schema file carries
NameOfLine(line) == SubSeq(line, 1, Len(line) - 1)

\* the feature names of the games of a sequence of rows
NamesOf(rows) == UNION {DOMAIN rows[j] : j \in 1..Len(rows)}

\* the feature names of every game of every file written
WrittenNames == UNION {NamesOf(csv_files[i].rows) : i \in 1..Len(csv_files)}

SchemaFileOk(text) ==
    /\ \A i \in 1..Len(text) : text[i][Len(text[i])] = "\n"
    /\ {NameOfLine(text[i]) : i \in 1..Len(text)} = WrittenNames
    /\ \A i \in 1..(Len(text) - 1) : LexBefore(NameOfLine(text[i]), NameOfLine(text[i + 1]))

C2_State ==
    /\ Len(schema_files) <= 1
    /\ pc = "done" => Len(schema_files) = 1
    /\ schema_files # <<>> =>
        /\ pc = "done"
        /\ Len(csv_files) = batchnum
        /\ SchemaFileOk(schema_files[1])

C2_Step ==
    /\ schema_columns \subseteq schema_columns'
    /\ csv_files' # csv_files =>
        schema_columns' = schema_columns \cup NamesOf(csv_files'[Len(csv_files')].rows)
    /\ csv_files' = csv_files => schema_columns' = schema_columns

\* C2: the schema set only grows, by the column names of each file written;
\* the schema file is written once, after the final export, and lists the
\* feature names of all games of all files, each once, in sorted order.
C2_SchemaUnion == [](C2_State) /\ [][C2_Step]_vars

\* a finished run whose files differ in their columns
C2_Witness ==
    /\ pc = "done"
    /\ Len(csv_files) = 3
    /\ NamesOf(csv_files[1].rows) # NamesOf(csv_files[2].rows)
    /\ Len(schema_files[1]) > Cardinality(NamesOf(csv_files[1].rows))
    /\ Len(schema_files[1]) > Cardinality(NamesOf(csv_files[2].rows))

\* the positions of a line that hold no whitespace
Inked(line) == {i \in 1..Len(line) : ~IsSpace(line[i])}
LeastOf(S) == CHOOSE x \in S : \A y \in S : x <= y
GreatestOf(S) == CHOOSE x \in S : \A y \in S : x >= y
IsBlank(line) == Inked(line) = {}
Trimmed(line) == SubSeq(line, LeastOf(Inked(line)), GreatestOf(Inked(line)))
IsTerminator(line) == ~IsBlank(line) /\ IsDigit(line[LeastOf(Inked(line))])

\* the records a sequence of lines holds, and the lines after the last of them
RECURSIVE Assembled(_)
Assembled(lines) ==
    IF lines = <<>> THEN [records |-> <<>>, buffer |-> <<>>]
    ELSE LET before == Assembled(SubSeq(lines, 1, Len(lines) - 1))
             line == lines[Len(lines)]
         IN  IF IsBlank(line) THEN before
             ELSE IF IsTerminator(line)
                  THEN [records |-> Append(before.records,
                                           Append(before.buffer, Trimmed(line))),
                        buffer |-> <<>>]
                  ELSE [records |-> before.records,
                        buffer |-> Append(before.buffer, Trimmed(line))]

\* C3: after the leading skip one record is dispatched per movetext
\* terminator and none otherwise; it holds the stripped non-blank lines since
\* the previous terminator, in order, the terminator last; the buffer is
\* empty after a dispatch (a dispatch whose extraction raises ends the run
\* with the record still in the buffer).
C3_RecordAssembly ==
    /\ dispatched = Assembled(stream).records
    /\ error \in {"None", "OSError"} => currgame = Assembled(stream).buffer
    /\ (error \in {"None", "OSError"} /\ stream # <<>> /\ IsTerminator(stream[Len(stream)]))
           => currgame = <<>>

\* two records, the second with a header line, a blank line in the stream
C3_Witness ==
    /\ Len(dispatched) = 2
    /\ Len(dispatched[2]) = 2
    /\ \E i \in 1..Len(stream) : IsBlank(stream[i])
    /\ currgame = <<>>
    /\ error = "None"

C6_Step ==
    console' # console =>
        /\ console'[Len(console')].rows = Len(outputs')
        /\ console'[Len(console')].rows = Len(dispatched')

\* C6: the total printed with the final export, (batchnum-1)*batch_size +
\* final_size, is the number of records dispatched, and the total printed
\* with each full batch, batchnum*batch_size, is the number accepted so far.
C6_RowTotals == [][C6_Step]_vars

\* three records under capacity 2: the messages count 2, then 3
C6_Witness ==
    /\ pc = "done"
    /\ batch_size = 2
    /\ Len(dispatched) = 3
    /\ Len(console) = 2
    /\ console[1].rows = 2
    /\ console[2].rows = 3

\* the stream ends here: the run leaves the loop without a dispatch
EndsStream == pc = "loop" /\ pc' # "loop" /\ dispatched' = dispatched

C7_State ==
    (FinalExported /\ currgame # <<>>) =>
        /\ error = "None"
        /\ Len(csv_files) = batchnum
        /\ AllRows(csv_files) = outputs
        /\ schema_columns = NamesOf(outputs)
        /\ pc = "done" =>
            /\ Len(schema_files) = 1
            /\ {NameOfLine(schema_files[1][i]) : i \in 1..Len(schema_files[1])}
                   = NamesOf(outputs)

C7_Step ==
    (EndsStream /\ currgame # <<>>) =>
        /\ error' \in {"None", "OSError"}
        /\ error' = "None" => pc' = "schema"

\* C7: header lines buffered when the stream ends are dropped: the end of the
\* stream raises nothing on their account, the final export and the schema
\* file are written, and the lines give no row and no name.
C7_TruncatedDropped == [](C7_State) /\ [][C7_Step]_vars

\* a finished run whose stream ended on a header line
C7_Witness ==
    /\ pc = "done"
    /\ currgame # <<>>
    /\ stream # <<>>
    /\ stream[Len(stream)] = L_tagA
    /\ Len(outputs) >= 1

\* a record no mapping can be extracted from: a header line with nothing
\* between its brackets, or a movetext the engine raises on
Malformed(record) ==
    \/ \E i \in 1..(Len(record) - 1) :
           \A j \in 2..(Len(record[i]) - 1) : IsSpace(record[i][j])
    \/ \E j \in 1..Len(record[Len(record)]) : record[Len(record)][j] = "?"

C8_State ==
    pc = "aborted" =>
        /\ error # "None"
        /\ schema_files = <<>>
        /\ Len(csv_files) < batchnum => AllRows(csv_files) \o game_batch = outputs

C8_Step ==
    /\ pc # "aborted"
    /\ (dispatched' # dispatched /\ Malformed(dispatched'[Len(dispatched')]))
           => pc' = "aborted"
    /\ pc' = "aborted" => (csv_files' = csv_files /\ schema_files' = schema_files)
    /\ \A i \in 1..Len(csv_files) : i <= Len(csv_files') /\ csv_files'[i] = csv_files[i]

\* C8: a failed extraction or a failed write ends the run there: no step
\* follows, no further file and no schema file is written, the games of the
\* batch in memory are in no file, and the files written stay as written.
\* (Len(csv_files) < batchnum: the export of the batch in memory has not
\* completed; a run that fails writing the schema file has exported it.)
C8_AbortIsFinal == [](C8_State) /\ [][C8_Step]_vars

\* a malformed header ends the run after a file was written, a game in memory
C8_Witness ==
    /\ pc = "aborted"
    /\ error = "IndexError"
    /\ Len(csv_files) >= 1
    /\ game_batch # <<>>

\* C9: the batch in memory never holds more than batch_size mappings, and
\* fewer than batch_size whenever a line is read.
C9_BatchBounded ==
    /\ Len(game_batch) <= batch_size
    /\ pc = "loop" => Len(game_batch) < batch_size

\* a batch was exported and the next one is filling
C9_Witness ==
    /\ pc = "loop"
    /\ batch_size = 2
    /\ Len(csv_files) >= 1
    /\ Len(game_batch) = 1

\* C10: in a finished run the files are numbered 1, 2, ..., k, each written
\* once, and their rows in that order are the mappings extracted from the
\* dispatched records, in stream order.
C10_NoLossNoReorder ==
    pc = "done" =>
        /\ \A i \in 1..Len(csv_files) : csv_files[i].batchnum = i
        /\ AllRows(csv_files) = outputs
        /\ Len(outputs) = Len(dispatched)
        /\ \A i \in 1..Len(outputs) : outputs[i] = parse_pgn(dispatched[i], max_ply).features

\* a finished run of three different games in two files
C10_Witness ==
    /\ pc = "done"
    /\ Len(csv_files) = 2
    /\ Len(outputs) = 3
    /\ outputs[1] # outputs[2]
    /\ outputs[2] # outputs[3]

====
